---- MODULE Spec2Model ----
(***************************************************************************)
(* bernstein_vazirani_circuit of qiskit_tutorial/bernstein_bazarani.py as  *)
(* a state machine: one action per statement of the function, the circuit  *)
(* being the ordered list of instructions the QuantumCircuit calls append. *)
(***************************************************************************)
EXTENDS Integers, Sequences, FiniteSets, TLC

\* Longest secret string drawn for a call (besides the script's own secret).
MaxLen == 3

\* Characters a secret string is drawn from: the two bits and one character
\* that is neither, since the function accepts any str.
Alphabet == {"0", "1", "a"}

\* secret_string = "10110101", the secret of the script's own call.
secret_string == <<"1", "0", "1", "1", "0", "1", "0", "1">>

VARIABLES
    secret_str,         \* argument: the secret, a sequence of characters
    use_ancilla,        \* argument
    use_paired_qubits,  \* argument
    n,                  \* local: len(secret_str)
    num_qubits,         \* local
    circuit,            \* local, then the returned object
    i,                  \* local: the oracle loop's index
    pc,                 \* the statement the call is at
    last                \* the first call's arguments and result, once it returned

vars == <<secret_str, use_ancilla, use_paired_qubits, n, num_qubits, circuit, i, pc, last>>

----------------------------------------------------------------------------
\* The instructions the QuantumCircuit methods append.

XGate(q) == [name |-> "x", qubits |-> <<q>>, clbits |-> <<>>]

HGate(q) == [name |-> "h", qubits |-> <<q>>, clbits |-> <<>>]

CXGate(c, t) == [name |-> "cx", qubits |-> <<c, t>>, clbits |-> <<>>]

Measure(q, c) == [name |-> "measure", qubits |-> <<q>>, clbits |-> <<c>>]

\* circuit.barrier() without arguments spans every qubit of the circuit.
Barrier(nq) == [name |-> "barrier", qubits |-> [k \in 1..nq |-> k - 1], clbits |-> <<>>]

\* circuit.h(range(k)): one h per qubit, in the order of the range.
HRange(k) == [j \in 1..k |-> HGate(j - 1)]

MeasureRangeReversed(k) == [j \in 1..k |-> Measure(j - 1, k - j)]

\* circuit.measure(range(k), range(k)): qubit j into classical bit j.
MeasureRange(k) == [j \in 1..k |-> Measure(j - 1, j - 1)]

\* A circuit that keeps the instructions of the object built before it.
QuantumCircuitShared(nq, nc) == [num_qubits |-> nq, num_clbits |-> nc, data |-> circuit.data]

\* QuantumCircuit(num_qubits, n): a fresh circuit with no instructions.
QuantumCircuit(nq, nc) == [num_qubits |-> nq, num_clbits |-> nc, data |-> <<>>]

NumQubitsPairedFirst(k, anc, paired) == IF paired THEN 2 * k ELSE IF anc THEN k + 1 ELSE k

\* num_qubits = n + 1 if use_ancilla else 2 * n if use_paired_qubits else n
NumQubits(k, anc, paired) == IF anc THEN k + 1 ELSE IF paired THEN 2 * k ELSE k

ReversedForgotten(s) == s

\* reversed(secret_str)
Reversed(s) == [k \in 1..Len(s) |-> s[Len(s) + 1 - k]]

InitOpsHFirst(k, anc) == IF anc THEN HRange(k + 1) \o <<XGate(k)>> ELSE HRange(k)

\* "Initialize qubits": x on the ancilla, then h on the inputs (and ancilla).
InitOps(k, anc) == IF anc THEN <<XGate(k)>> \o HRange(k + 1) ELSE HRange(k)

OracleOpsSwapped(j, bit, k, anc, paired) ==
    IF bit = "1"
    THEN IF anc THEN <<CXGate(k, j)>>
         ELSE IF paired THEN <<CXGate(j, k + j)>>
         ELSE <<XGate(j)>>
    ELSE <<>>

OracleOpsPairedFirst(j, bit, k, anc, paired) ==
    IF bit = "1"
    THEN IF paired THEN <<CXGate(j, k + j)>>
         ELSE IF anc THEN <<CXGate(j, k)>>
         ELSE <<XGate(j)>>
    ELSE <<>>

OracleOpsPairedOntoN(j, bit, k, anc, paired) ==
    IF bit = "1"
    THEN IF anc THEN <<CXGate(j, k)>>
         ELSE IF paired THEN <<CXGate(j, k)>>
         ELSE <<XGate(j)>>
    ELSE <<>>

OracleOpsPlainNothing(j, bit, k, anc, paired) ==
    IF bit = "1"
    THEN IF anc THEN <<CXGate(j, k)>>
         ELSE IF paired THEN <<CXGate(j, k + j)>>
         ELSE <<>>
    ELSE <<>>

OracleOpsNotZero(j, bit, k, anc, paired) ==
    IF bit # "0"
    THEN IF anc THEN <<CXGate(j, k)>>
         ELSE IF paired THEN <<CXGate(j, k + j)>>
         ELSE <<XGate(j)>>
    ELSE <<>>

\* The body of the oracle loop for index j and character bit.
OracleOps(j, bit, k, anc, paired) ==
    IF bit = "1"
    THEN IF anc THEN <<CXGate(j, k)>>
         ELSE IF paired THEN <<CXGate(j, k + j)>>
         ELSE <<XGate(j)>>
    ELSE <<>>

\* Appending instructions to the circuit under construction.
Emit(ops) == circuit' = [circuit EXCEPT !.data = @ \o ops]

----------------------------------------------------------------------------
\* The calls: every non-empty string up to MaxLen with every flag
\* combination, and the script's call bernstein_vazirani_circuit(secret_string).

Secrets == UNION {[1..k -> Alphabet] : k \in 1..MaxLen}

Calls ==
    {[secret_str |-> s, use_ancilla |-> a, use_paired_qubits |-> p] :
        s \in Secrets, a \in BOOLEAN, p \in BOOLEAN}
    \cup {[secret_str |-> secret_string, use_ancilla |-> TRUE, use_paired_qubits |-> FALSE]}

\* The value of circuit before the first call assigns it.
NoCircuit == [num_qubits |-> 0, num_clbits |-> 0, data |-> <<>>]

Enter(c) ==
    /\ secret_str = c.secret_str
    /\ use_ancilla = c.use_ancilla
    /\ use_paired_qubits = c.use_paired_qubits
    /\ n = 0
    /\ num_qubits = 0
    /\ i = 0
    /\ pc = "construct"

Init ==
    /\ \E c \in Calls : Enter(c)
    /\ circuit = NoCircuit
    /\ last = <<>>

Args == <<secret_str, use_ancilla, use_paired_qubits>>

\* n = len(secret_str); num_qubits = ...; circuit = QuantumCircuit(num_qubits, n)
Construct ==
    /\ pc = "construct"
    /\ n' = Len(secret_str)
    /\ num_qubits' = NumQubits(Len(secret_str), use_ancilla, use_paired_qubits)
    /\ circuit' = QuantumCircuit(num_qubits', n')
    /\ pc' = "init"
    /\ UNCHANGED <<Args, i, last>>

InitQubits ==
    /\ pc = "init"
    /\ Emit(InitOps(n, use_ancilla))
    /\ pc' = "barrier1"
    /\ UNCHANGED <<Args, n, num_qubits, i, last>>

Barrier1 ==
    /\ pc = "barrier1"
    /\ Emit(<<Barrier(circuit.num_qubits)>>)
    /\ i' = 0
    /\ pc' = "oracle"
    /\ UNCHANGED <<Args, n, num_qubits, last>>

\* One iteration of: for i, bit in enumerate(reversed(secret_str))
OracleStep ==
    /\ pc = "oracle"
    /\ i < Len(Reversed(secret_str))
    /\ Emit(OracleOps(i, Reversed(secret_str)[i + 1], n, use_ancilla, use_paired_qubits))
    /\ i' = i + 1
    /\ UNCHANGED <<Args, n, num_qubits, pc, last>>

\* The loop is exhausted; the second barrier.
Barrier2 ==
    /\ pc = "oracle"
    /\ i >= Len(Reversed(secret_str))
    /\ Emit(<<Barrier(circuit.num_qubits)>>)
    /\ pc' = "basis"
    /\ UNCHANGED <<Args, n, num_qubits, i, last>>

BasisChange ==
    /\ pc = "basis"
    /\ Emit(HRange(n))
    /\ pc' = "measure"
    /\ UNCHANGED <<Args, n, num_qubits, i, last>>

Measurement ==
    /\ pc = "measure"
    /\ Emit(MeasureRange(n))
    /\ pc' = "done"
    /\ UNCHANGED <<Args, n, num_qubits, i, last>>

\* A second call of the function, with any arguments; the caller still holds
\* the first call's result.
CallAgain ==
    /\ pc = "done"
    /\ last = <<>>
    /\ last' = <<[secret_str |-> secret_str, use_ancilla |-> use_ancilla,
                  use_paired_qubits |-> use_paired_qubits, circuit |-> circuit]>>
    /\ \E c \in Calls :
        /\ secret_str' = c.secret_str
        /\ use_ancilla' = c.use_ancilla
        /\ use_paired_qubits' = c.use_paired_qubits
    /\ n' = 0
    /\ num_qubits' = 0
    /\ i' = 0
    /\ pc' = "construct"
    /\ UNCHANGED circuit

Build ==
    \/ Construct
    \/ InitQubits
    \/ Barrier1
    \/ OracleStep
    \/ Barrier2
    \/ BasisChange
    \/ Measurement

Next == Build

Spec == Init /\ [][Next]_vars

NextCalls ==
    \/ Build
    \/ CallAgain

SpecCalls == Init /\ [][NextCalls]_vars

----------------------------------------------------------------------------
\* Vocabulary of the properties.

Done == pc = "done"

Data == circuit.data

\* Positions of the instructions named nm in the returned circuit.
Idx(nm) == {k \in DOMAIN Data : Data[k].name = nm}

IsBinary(s) == \A k \in DOMAIN s : s[k] \in {"0", "1"}

RECURSIVE PopCount(_)
PopCount(s) == IF s = <<>> THEN 0 ELSE (IF Head(s) = "1" THEN 1 ELSE 0) + PopCount(Tail(s))

\* Positions p whose character, at index Len(s)-1-p counted from 0 on the
\* left (Len(s)-p counted from 1), is '1'.
OnePositions(s) == {p \in 0..(Len(s) - 1) : s[Len(s) - p] = "1"}

\* The string with every character other than '1' replaced by '0'.
Zeroed(s) == [k \in DOMAIN s |-> IF s[k] = "1" THEN "1" ELSE "0"]

FirstBarrier == CHOOSE b \in Idx("barrier") : \A c \in Idx("barrier") : b <= c

SecondBarrier == CHOOSE b \in Idx("barrier") : \A c \in Idx("barrier") : c <= b

\* Positions strictly between the two barriers.
OracleSection == {k \in DOMAIN Data : FirstBarrier < k /\ k < SecondBarrier}

SameSecretAsLast == Len(last) = 1 /\ last[1].secret_str = secret_str

SameArgsAsLast ==
    /\ SameSecretAsLast
    /\ last[1].use_ancilla = use_ancilla
    /\ last[1].use_paired_qubits = use_paired_qubits

----------------------------------------------------------------------------
\* C1: for a non-empty binary secret of length n the returned circuit has n
\* classical bits, and n+1 qubits with use_ancilla (whatever
\* use_paired_qubits is), 2n without use_ancilla and with use_paired_qubits,
\* n with neither.
C1_QubitCounts ==
    (Done /\ IsBinary(secret_str)) =>
        /\ Len(secret_str) >= 1
        /\ circuit.num_clbits = Len(secret_str)
        /\ use_ancilla => circuit.num_qubits = Len(secret_str) + 1
        /\ (~use_ancilla /\ use_paired_qubits) => circuit.num_qubits = 2 * Len(secret_str)
        /\ (~use_ancilla /\ ~use_paired_qubits) => circuit.num_qubits = Len(secret_str)

C1_Witness ==
    /\ Done
    /\ secret_str = <<"1", "0", "0">>
    /\ ~use_ancilla
    /\ use_paired_qubits
    /\ circuit.num_qubits = 6
    /\ circuit.num_clbits = 3

\* C2: with use_ancilla the circuit of a binary secret holds exactly
\* popcount(secret) cx instructions, each targets the ancilla line n, and
\* there is none when the secret is all zeros.
C2_AncillaCX ==
    (Done /\ use_ancilla /\ IsBinary(secret_str)) =>
        /\ Cardinality(Idx("cx")) = PopCount(secret_str)
        /\ \A k \in Idx("cx") : Data[k].qubits[2] = Len(secret_str)
        /\ (\A k \in DOMAIN secret_str : secret_str[k] = "0") => Idx("cx") = {}

C2_Witness ==
    /\ Done
    /\ use_ancilla
    /\ secret_str = <<"0", "1", "1">>
    /\ Cardinality(Idx("cx")) = 2
    /\ \A k \in Idx("cx") : Data[k].qubits[2] = 3

\* The control lines of the cx instructions are the '1' positions, each the
\* control of exactly one cx.
ControlsAreOnePositions ==
    /\ {Data[k].qubits[1] : k \in Idx("cx")} = OnePositions(secret_str)
    /\ \A p \in OnePositions(secret_str) :
        Cardinality({k \in Idx("cx") : Data[k].qubits[1] = p}) = 1

\* C3 as stated: in the circuit of every binary secret, whatever the flags,
\* the control lines of the cx instructions are the '1' positions.
C3_ControlsAnyMode == (Done /\ IsBinary(secret_str)) => ControlsAreOnePositions

\* C3 amended: the same for the circuits built with use_ancilla, or without
\* use_ancilla and with use_paired_qubits; "101" with use_ancilla gives
\* exactly the cx 0->3 and 2->3.
C3_ControlsInCXModes ==
    (Done /\ IsBinary(secret_str) /\ (use_ancilla \/ use_paired_qubits)) =>
        /\ ControlsAreOnePositions
        /\ (use_ancilla /\ secret_str = <<"1", "0", "1">>) =>
            /\ {Data[k].qubits : k \in Idx("cx")} = {<<0, 3>>, <<2, 3>>}
            /\ Cardinality(Idx("cx")) = 2

C3_Witness ==
    /\ Done
    /\ use_ancilla
    /\ secret_str = <<"1", "0", "0">>
    /\ {Data[k].qubits : k \in Idx("cx")} = {<<2, 3>>}

\* C4: with use_ancilla in both calls and the same binary secret, the circuit
\* built with use_paired_qubits equals the one built without it (qubit count,
\* classical-bit count and instruction list); under use_ancilla no
\* instruction reaches a paired line.
C4_ModePrecedence ==
    /\ (Done /\ SameSecretAsLast /\ IsBinary(secret_str)
            /\ use_ancilla /\ last[1].use_ancilla
            /\ use_paired_qubits # last[1].use_paired_qubits)
        => circuit = last[1].circuit
    /\ (Done /\ IsBinary(secret_str) /\ use_ancilla)
        => \A k \in DOMAIN Data : \A q \in DOMAIN Data[k].qubits :
                Data[k].qubits[q] <= Len(secret_str)

C4_Witness ==
    /\ Done
    /\ SameSecretAsLast
    /\ secret_str = <<"1", "1">>
    /\ use_ancilla
    /\ last[1].use_ancilla
    /\ last[1].use_paired_qubits
    /\ ~use_paired_qubits
    /\ circuit = last[1].circuit
    /\ Cardinality(Idx("cx")) = 2

\* C5: without use_ancilla and with use_paired_qubits, the cx instructions of
\* a binary secret are exactly one cx i -> n+i per '1' position i, so no
\* paired line is targeted twice; "1" gives 2 qubits, 1 classical bit and the
\* single cx 0->1.
C5_PairedCX ==
    (Done /\ ~use_ancilla /\ use_paired_qubits /\ IsBinary(secret_str)) =>
        /\ \A p \in OnePositions(secret_str) :
            Cardinality({k \in Idx("cx") : Data[k].qubits = <<p, Len(secret_str) + p>>}) = 1
        /\ \A k \in Idx("cx") :
            \E p \in OnePositions(secret_str) : Data[k].qubits = <<p, Len(secret_str) + p>>
        /\ \A k1, k2 \in Idx("cx") : Data[k1].qubits[2] = Data[k2].qubits[2] => k1 = k2
        /\ secret_str = <<"1">> =>
            /\ circuit.num_qubits = 2
            /\ circuit.num_clbits = 1
            /\ Cardinality(Idx("cx")) = 1
            /\ \A k \in Idx("cx") : Data[k].qubits = <<0, 1>>

C5_Witness ==
    /\ Done
    /\ ~use_ancilla
    /\ use_paired_qubits
    /\ secret_str = <<"1", "1", "0">>
    /\ {Data[k].qubits : k \in Idx("cx")} = {<<1, 4>>, <<2, 5>>}

\* C6: with both flags false the circuit of a binary secret holds no cx; it
\* holds an x on line i exactly for the '1' positions i, once each, and the
\* oracle section holds nothing for a '0'.
C6_PlainX ==
    (Done /\ ~use_ancilla /\ ~use_paired_qubits /\ IsBinary(secret_str)) =>
        /\ Idx("cx") = {}
        /\ {Data[k].qubits[1] : k \in Idx("x")} = OnePositions(secret_str)
        /\ Cardinality(Idx("x")) = Cardinality(OnePositions(secret_str))
        /\ OracleSection = Idx("x")

C6_Witness ==
    /\ Done
    /\ ~use_ancilla
    /\ ~use_paired_qubits
    /\ secret_str = <<"0", "1", "0">>
    /\ Cardinality(Idx("x")) = 1
    /\ \A k \in Idx("x") : Data[k].qubits = <<1>>

\* C7: a second call with the secret and the flags of the first returns a
\* circuit equal to the first call's (qubit count, classical-bit count and
\* instruction list).
C7_Deterministic == (Done /\ SameArgsAsLast) => circuit = last[1].circuit

C7_Witness ==
    /\ Done
    /\ SameArgsAsLast
    /\ secret_str = <<"1", "0", "1">>
    /\ use_ancilla
    /\ ~use_paired_qubits
    /\ circuit = last[1].circuit
    /\ Len(Data) = 15

\* C8: the instruction list is initialization, barrier, oracle, barrier,
\* basis change, measurement: exactly two barriers; every oracle instruction
\* (cx, or x without both flags) strictly between them, in increasing order
\* of bit position; only x and h before the first barrier; after the second
\* only h and measure, every h before every measure; and with use_ancilla
\* the x on line n precedes the h on line n.
C8_Order ==
    (Done /\ IsBinary(secret_str)) =>
        /\ Cardinality(Idx("barrier")) = 2
        /\ Idx("cx") \subseteq OracleSection
        /\ ~use_ancilla => Idx("x") \subseteq OracleSection
        /\ \A k \in OracleSection :
            Data[k].name = (IF use_ancilla \/ use_paired_qubits THEN "cx" ELSE "x")
        /\ \A k1, k2 \in OracleSection : k1 < k2 => Data[k1].qubits[1] < Data[k2].qubits[1]
        /\ \A k \in DOMAIN Data : k < FirstBarrier => Data[k].name \in {"x", "h"}
        /\ \A k \in DOMAIN Data : k > SecondBarrier => Data[k].name \in {"h", "measure"}
        /\ \A k \in Idx("measure") : k > SecondBarrier
        /\ \A h \in Idx("h") : \A m \in Idx("measure") : h < m
        /\ \E h \in Idx("h") : h < FirstBarrier
        /\ \E h \in Idx("h") : h > SecondBarrier
        /\ use_ancilla =>
            /\ \E x \in Idx("x") : Data[x].qubits = <<Len(secret_str)>> /\ x < FirstBarrier
            /\ \E h \in Idx("h") : Data[h].qubits = <<Len(secret_str)>>
            /\ \A x \in Idx("x") : \A h \in Idx("h") :
                (Data[x].qubits = <<Len(secret_str)>> /\ Data[h].qubits = <<Len(secret_str)>>)
                    => x < h

C8_Witness ==
    /\ Done
    /\ use_ancilla
    /\ secret_str = <<"1", "1", "1">>
    /\ Data[1] = XGate(3)
    /\ FirstBarrier = 6
    /\ SecondBarrier = 10

\* C9: every input line i < n is measured exactly once, into classical bit
\* i, and no line >= n is measured; every input line carries two h (one
\* before the first barrier, one after the second), the ancilla line one,
\* the paired lines none.
C9_MeasureAndH ==
    (Done /\ IsBinary(secret_str)) =>
        /\ \A q \in 0..(Len(secret_str) - 1) :
            /\ Cardinality({k \in Idx("measure") : Data[k].qubits = <<q>>}) = 1
            /\ \A k \in Idx("measure") : Data[k].qubits = <<q>> => Data[k].clbits = <<q>>
            /\ Cardinality({k \in Idx("h") : Data[k].qubits = <<q>>}) = 2
            /\ \E k \in Idx("h") : Data[k].qubits = <<q>> /\ k < FirstBarrier
            /\ \E k \in Idx("h") : Data[k].qubits = <<q>> /\ k > SecondBarrier
        /\ \A k \in Idx("measure") : Data[k].qubits[1] < Len(secret_str)
        /\ \A q \in Len(secret_str)..(circuit.num_qubits - 1) :
            Cardinality({k \in Idx("h") : Data[k].qubits = <<q>>}) = (IF use_ancilla THEN 1 ELSE 0)
        /\ \A k \in Idx("h") : Data[k].qubits[1] < circuit.num_qubits

C9_Witness ==
    /\ Done
    /\ ~use_ancilla
    /\ use_paired_qubits
    /\ secret_str = <<"0", "1">>
    /\ Cardinality(Idx("measure")) = 2
    /\ Cardinality(Idx("h")) = 4
    /\ Data[Len(Data)] = Measure(1, 1)

\* C10: a call with any non-empty string completes, and its circuit equals
\* the circuit built, with the same flags, from the string with every
\* character other than '1' replaced by '0': such a character emits nothing
\* in the oracle section.
C10_NonBinaryAsZero ==
    /\ (Done /\ Len(last) = 1
            /\ last[1].secret_str = Zeroed(secret_str)
            /\ last[1].use_ancilla = use_ancilla
            /\ last[1].use_paired_qubits = use_paired_qubits)
        => circuit = last[1].circuit
    /\ Done => Cardinality(OracleSection) = PopCount(secret_str)
    /\ Done \/ ENABLED Build

C10_Witness ==
    /\ Done
    /\ secret_str = <<"a", "1", "a">>
    /\ Len(last) = 1
    /\ last[1].secret_str = <<"0", "1", "0">>
    /\ last[1].use_ancilla = use_ancilla
    /\ last[1].use_paired_qubits = use_paired_qubits
    /\ circuit = last[1].circuit
    /\ Cardinality(OracleSection) = 1

====
